---- MODULE Spec2Model ----
(***************************************************************************)
(* Model of src/main_webhook.py: the classifieds bot of "Lyzhny Bazar".    *)
(*                                                                         *)
(* State: the per-user conversation state and user_data of the             *)
(* ConversationHandler, the JSON file of pending submissions, the posts    *)
(* in the target channel, the clock, and the handler coroutines that are   *)
(* suspended at an await.  Every action is one synchronous block of a      *)
(* handler: from the dispatch of an update, or from the completion of the  *)
(* awaited provider call, up to the next await or the return.              *)
(*                                                                         *)
(* Provider calls fail (raise) exactly where the handler has an except     *)
(* clause around them (lines 270-289 and 317-339); the remaining calls are *)
(* taken to return.                                                        *)
(*                                                                         *)
(* Specifications: Spec, the bot handling one update at a time; ConcSpec,  *)
(* handlers interleaving at their awaits; BootSpec, the start of the       *)
(* process under every environment; RenderSpec, format_listing on every    *)
(* record; AlbumSpec, the album buffer of media groups.                    *)
(***************************************************************************)
EXTENDS Integers, Sequences, FiniteSets, TLC

\* ----- bounds -----
MaxTime == 1
MaxMedia == 2
MaxTasks == 2
MaxPosts == 2
MaxPieces == 4
MaxClock == 4

\* ----- conversation states (line 39-41) and ConversationHandler.END -----
CAT == 0
ITEM == 1
SIZE == 2
CONDITION == 3
PRICE == 4
CITY == 5
DELIVERY == 6
CONTACT == 7
DESCRIPTION == 8
MEDIA == 9
CONFIRM == 10
END == -1

ConvStates == CAT..CONFIRM
TextStates == CAT..DESCRIPTION


\* (mutant) item and size stored under each other's key
FieldOf_Swapped == <<"category", "size", "item", "condition", "price", "city",
                     "delivery", "contact", "description">>

\* The key each text state stores its answer under (set_cat .. set_description).
FieldOf == <<"category", "item", "size", "condition", "price", "city",
             "delivery", "contact", "description">>

\* ----- the environment: users, configured administrators, inputs -----
Users == {1, 2, 3}
Posters == {3}
SubIds == Users \X (0..MaxTime)

\* The answers a user types in text state k: two words named after the state,
\* with or without blanks around them.
Word == <<"c", "i", "s", "o", "p", "y", "d", "n", "e">>
Texts(k) == {<<Word[k + 1], " ", Word[k + 1]>>,
             <<" ", Word[k + 1], " ", Word[k + 1], " ">>}
\* The k-th photo or video a user uploads in a conversation: a photo in its
\* sizes (thumbnail first) for odd k, a video for even k; k is the file id.
MediaMsgs(k) == {IF k % 2 = 1 THEN [photo |-> <<0, k>>, video |-> <<>>]
                 ELSE [photo |-> <<>>, video |-> <<k>>]}

\* ----- dictionaries -----
EmptyDict == [k \in {} |-> <<>>]

Put(d, k, v) == [x \in (DOMAIN d) \cup {k} |-> IF x = k THEN v ELSE d[x]]

Pop(d, k) == [x \in (DOMAIN d) \ {k} |-> d[x]]

Get(d, k, default) == IF k \in DOMAIN d THEN d[k] ELSE default

\* ----- pure helpers -----
RECURSIVE LStrip(_)
LStrip(t) == IF t # <<>> /\ Head(t) = " " THEN LStrip(Tail(t)) ELSE t

RECURSIVE RStrip(_)
RStrip(t) ==
  IF t # <<>> /\ t[Len(t)] = " " THEN RStrip(SubSeq(t, 1, Len(t) - 1)) ELSE t

\* str.strip()
Strip(t) == RStrip(LStrip(t))

\* str.replace(' ', '_')
Underscored(t) == [i \in 1..Len(t) |-> IF t[i] = " " THEN "_" ELSE t[i]]

Dash == <<"-">>

TagKeys == <<"category", "size", "condition", "city">>

RECURSIVE TagsFrom(_, _)
TagsFrom(data, i) ==
  IF i > Len(TagKeys) THEN <<>>
  ELSE LET k == TagKeys[i]
       IN  (IF Get(data, k, <<>>) # <<>>
              THEN << <<"#">> \o Underscored(data[k]) >>
              ELSE <<>>) \o TagsFrom(data, i + 1)


\* (mutant) the price and city lines in each other's place
format_listing_Swapped(data) ==
  [tags |-> TagsFrom(data, 1),
   lines |-> <<Get(data, "item", Dash), Get(data, "size", Dash),
               Get(data, "condition", Dash), Get(data, "city", Dash),
               Get(data, "price", Dash), Get(data, "delivery", Dash),
               Get(data, "contact", Dash), Get(data, "description", Dash)>>]

\* The text of a listing: the hashtag line, then the eight labelled lines.
format_listing(data) ==
  [tags |-> TagsFrom(data, 1),
   lines |-> <<Get(data, "item", Dash), Get(data, "size", Dash),
               Get(data, "condition", Dash), Get(data, "price", Dash),
               Get(data, "city", Dash), Get(data, "delivery", Dash),
               Get(data, "contact", Dash), Get(data, "description", Dash)>>]


\* (mutant) the caption on every item of an album
Outgoing_CaptionAll(media_list, text) ==
  [i \in 1..Len(media_list) |->
     [kind |-> media_list[i][1], media |-> media_list[i][2],
      caption |-> <<text>>]]

\* What a send of a listing carries: one captioned item, or an album whose
\* first item alone has the caption (an absent caption is the empty sequence).
Outgoing(media_list, text) ==
  IF Len(media_list) = 1
    THEN << [kind |-> media_list[1][1], media |-> media_list[1][2],
             caption |-> <<text>>] >>
    ELSE [i \in 1..Len(media_list) |->
            [kind |-> media_list[i][1], media |-> media_list[i][2],
             caption |-> IF i = 1 THEN <<text>> ELSE <<>>]]

\* ----- configuration -----
\* The environment variables the program reads, and the values tried for
\* each; a variable may also be unset.
EnvValues ==
  [BOT_TOKEN |-> {"token"}, CHANNEL_ID |-> {"@channel"},
   ADMIN_IDS |-> {"", "1,2", "1, x"}, WEBHOOK_URL |-> {"https://host/telegram"},
   MODE |-> {"webhook", "polling"}]

Environs ==
  UNION {{e \in [names -> UNION {EnvValues[n] : n \in names}] :
            \A n \in names : e[n] \in EnvValues[n]} :
         names \in SUBSET (DOMAIN EnvValues)}

\* The environment of a deployment that sets every variable.
Configured ==
  [BOT_TOKEN |-> "token", CHANNEL_ID |-> "@channel", ADMIN_IDS |-> "1,2",
   WEBHOOK_URL |-> "https://host/telegram", MODE |-> "webhook"]

\* The characters of the values ADMIN_IDS takes.
Chars(raw) ==
  CASE raw = "1,2" -> <<"1", ",", "2">>
    [] raw = "1, x" -> <<"1", ",", " ", "x">>
    [] OTHER -> <<>>

\* str.upper() on the values MODE takes.
Upper(raw) ==
  CASE raw = "webhook" -> "WEBHOOK"
    [] raw = "polling" -> "POLLING"
    [] OTHER -> raw

\* os.getenv(name, default)
getenv(e, name, default) == IF name \in DOMAIN e THEN e[name] ELSE default

\* env(name) raises when the variable is unset; env(name, default) with a
\* default that is not None never does.
env_raises(e, name) == name \notin DOMAIN e

Digits == <<"0", "1", "2", "3", "4", "5", "6", "7", "8", "9">>

IsDigits(part) ==
  part # <<>> /\ \A j \in DOMAIN part : \E d \in DOMAIN Digits : Digits[d] = part[j]

\* int(part) for a part made of digits
RECURSIVE ToInt(_)
ToInt(part) ==
  IF part = <<>> THEN 0
  ELSE 10 * ToInt(SubSeq(part, 1, Len(part) - 1))
         + (CHOOSE d \in 0..9 : Digits[d + 1] = part[Len(part)])

\* str.split(",")
RECURSIVE Split(_)
Split(raw) ==
  IF \A j \in DOMAIN raw : raw[j] # "," THEN <<raw>>
  ELSE LET k == CHOOSE j \in DOMAIN raw :
                  raw[j] = "," /\ \A i \in 1..(j - 1) : raw[i] # ","
       IN  <<SubSeq(raw, 1, k - 1)>> \o Split(SubSeq(raw, k + 1, Len(raw)))

RECURSIVE IdsOf(_)
IdsOf(parts) ==
  IF parts = <<>> THEN <<>>
  ELSE LET part == Strip(Head(parts))
       IN  (IF part # <<>> /\ IsDigits(part) THEN <<ToInt(part)>> ELSE <<>>)
             \o IdsOf(Tail(parts))

get_admin_ids(e) == IdsOf(Split(Chars(getenv(e, "ADMIN_IDS", ""))))

\* The administrators of the configured deployment.
AdminIds == get_admin_ids(Configured)

is_admin(user_id) == \E i \in DOMAIN AdminIds : AdminIds[i] = user_id

VARIABLES
  state,      \* conversation state of each user (END: no conversation)
  user_data,  \* context.user_data of each user
  reply,      \* the last message the form handlers showed each user
  db,         \* contents of data/submissions.json
  channel,    \* the posts in the target channel, oldest first: each is
              \* the id of the entry whose listing (the handler's out) it is
  now,        \* epoch seconds
  tasks,      \* handler coroutines suspended at an await
  environ,    \* os.environ: the configuration the process was started with
  proc,       \* how far the process has got (lines 382-401)
  record,    \* a record handed to format_listing
  rendered,   \* what format_listing made of it
  buffers,    \* album buffer: group id -> the pieces received, in order
  timers,     \* the flushes scheduled: [gid, due]
  queue,      \* the albums handed to the moderation queue, oldest first
  clock,      \* time, in steps of the album buffer
  arrived     \* how many media pieces have arrived

\* The bot proper, and what the started process no longer changes.
bot == <<state, user_data, reply, db, channel, now, tasks>>

bootvars == <<environ, proc>>

rendervars == <<record, rendered>>

albumvars == <<buffers, timers, queue, clock, arrived>>

aside == <<bootvars, rendervars, albumvars>>

vars == <<bot, aside>>

Idle == [h |-> "idle"]

Running == {i \in 1..MaxTasks : tasks[i].h # "idle"}

\* The slot a newly dispatched update runs in, when at most cap handlers
\* run at a time.
CanDispatch(cap) == Cardinality(Running) < cap

FreeSlot == CHOOSE i \in 1..MaxTasks :
              tasks[i].h = "idle" /\ \A j \in 1..(i - 1) : tasks[j].h # "idle"

Spawn(t) == tasks' = [tasks EXCEPT ![FreeSlot] = t]

Finish(i) == tasks' = [tasks EXCEPT ![i] = Idle]

\* The process was started with every variable set and is serving updates.
NotRendered == [tags |-> <<>>, lines |-> <<>>]

Started ==
  /\ environ = Configured
  /\ proc = "serving"

NothingRendered ==
  /\ record = EmptyDict
  /\ rendered = NotRendered

NoAlbums ==
  /\ buffers = EmptyDict
  /\ timers = {}
  /\ queue = <<>>
  /\ clock = 0
  /\ arrived = 0

\* The bot with no conversation, no pending submission and nothing posted.
BotIdle ==
  /\ state = [u \in Users |-> END]
  /\ user_data = [u \in Users |-> EmptyDict]
  /\ reply = [u \in Users |-> "none"]
  /\ db = EmptyDict
  /\ channel = <<>>
  /\ now = 0
  /\ tasks = [i \in 1..MaxTasks |-> Idle]

Init == BotIdle /\ Started /\ NothingRendered /\ NoAlbums

\* ----- the clock -----
Tick ==
  /\ now < MaxTime
  /\ now' = now + 1
  /\ UNCHANGED <<aside, state, user_data, reply, db, channel, tasks>>

\* ----- /start (entry point, allow_reentry) -----
StartCmd(cap, u) ==
  /\ CanDispatch(cap)
  /\ Spawn([h |-> "start", u |-> u, pc |-> "reply"])
  /\ UNCHANGED <<aside, state, user_data, reply, db, channel, now>>

Fresh == Put(EmptyDict, "media", <<>>)

StartReturn(i) ==
  /\ tasks[i].h = "start"
  /\ LET u == tasks[i].u
     IN  /\ reply' = [reply EXCEPT ![u] = "start"]
         /\ user_data' = [user_data EXCEPT ![u] = Fresh]
         /\ state' = [state EXCEPT ![u] = CAT]
  /\ Finish(i)
  /\ UNCHANGED <<aside, db, channel, now>>

\* ----- /cancel (fallback of every conversation state) -----
CancelCmd(cap, u) ==
  /\ CanDispatch(cap)
  /\ state[u] \in ConvStates
  /\ Spawn([h |-> "cancel", u |-> u, pc |-> "reply"])
  /\ UNCHANGED <<aside, state, user_data, reply, db, channel, now>>


\* (mutant) cancel that ends the conversation and leaves the record
CancelReturn_KeepData(i) ==
  /\ tasks[i].h = "cancel"
  /\ LET u == tasks[i].u
     IN  /\ reply' = [reply EXCEPT ![u] = "cancelled"]
         /\ state' = [state EXCEPT ![u] = END]
  /\ Finish(i)
  /\ UNCHANGED <<aside, user_data, db, channel, now>>

CancelReturn(i) ==
  /\ tasks[i].h = "cancel"
  /\ LET u == tasks[i].u
     IN  /\ reply' = [reply EXCEPT ![u] = "cancelled"]
         /\ user_data' = [user_data EXCEPT ![u] = EmptyDict]
         /\ state' = [state EXCEPT ![u] = END]
  /\ Finish(i)
  /\ UNCHANGED <<aside, db, channel, now>>

\* ----- set_cat .. set_description -----
TextMsg(cap, u, t) ==
  /\ CanDispatch(cap)
  /\ state[u] \in TextStates
  /\ user_data' = [user_data EXCEPT
                     ![u] = Put(@, FieldOf[state[u] + 1], Strip(t))]
  /\ Spawn([h |-> "set", u |-> u, pc |-> "reply", k |-> state[u]])
  /\ UNCHANGED <<aside, state, reply, db, channel, now>>

SetReturn(i) ==
  /\ tasks[i].h = "set"
  /\ LET u == tasks[i].u
     IN  /\ reply' = [reply EXCEPT ![u] = "prompt"]
         /\ state' = [state EXCEPT ![u] = tasks[i].k + 1]
  /\ Finish(i)
  /\ UNCHANGED <<aside, user_data, db, channel, now>>

\* ----- collect_media: no await, so the whole handler is one block -----
FileOf(m) ==
  IF m.photo # <<>> THEN <<"photo", m.photo[Len(m.photo)]>>
  ELSE <<"video", m.video[1]>>

MediaMsg(cap, u, m) ==
  /\ CanDispatch(cap)
  /\ state[u] = MEDIA
  /\ Len(Get(user_data[u], "media", <<>>)) < MaxMedia
  /\ user_data' = [user_data EXCEPT
                     ![u] = Put(@, "media",
                                Append(Get(@, "media", <<>>), FileOf(m)))]
  /\ UNCHANGED <<aside, state, reply, db, channel, now, tasks>>

\* ----- media_done: the "done" word in media collection -----
DoneMsg(cap, u) ==
  /\ CanDispatch(cap)
  /\ state[u] = MEDIA
  /\ LET media_list == Get(user_data[u], "media", <<>>)
     IN  IF Len(media_list) = 0
           THEN Spawn([h |-> "media_done", u |-> u, pc |-> "nomedia"])
           ELSE Spawn([h |-> "media_done", u |-> u, pc |-> "preview",
                       out |-> Outgoing(media_list,
                                        format_listing(user_data[u]))])
  /\ UNCHANGED <<aside, state, user_data, reply, db, channel, now>>

MediaDoneReturn(i) ==
  /\ tasks[i].h = "media_done"
  /\ LET u == tasks[i].u
     IN  IF tasks[i].pc = "nomedia"
           THEN /\ reply' = [reply EXCEPT ![u] = "nomedia"]
                /\ state' = [state EXCEPT ![u] = MEDIA]
           ELSE /\ reply' = [reply EXCEPT ![u] = "confirm"]
                /\ state' = [state EXCEPT ![u] = CONFIRM]
  /\ Finish(i)
  /\ UNCHANGED <<aside, user_data, db, channel, now>>

\* ----- confirm_handler: the submit / edit buttons of the preview -----
ConfirmPress(cap, u, data) ==
  /\ CanDispatch(cap)
  /\ state[u] = CONFIRM
  /\ Spawn([h |-> "confirm", u |-> u, data |-> data, pc |-> "answer"])
  /\ UNCHANGED <<aside, state, user_data, reply, db, channel, now>>

\* f"{user id}_{epoch seconds}"
SubIdOf(user_id, t) == <<user_id, t>>

Submission(u) ==
  [user_id |-> u, username |-> u, data |-> user_data[u], created_at |-> now]

\* The pc after the notification of administrator number n is over.
AfterAdmin(n) == IF n < Len(AdminIds) THEN "notify" ELSE "sentmsg"


\* (mutant) confirm handler without the early return of the edit branch
ConfirmAnswered_EditStores(i) ==
  /\ tasks[i].h = "confirm" /\ tasks[i].pc = "answer"
  /\ LET u == tasks[i].u
         sub_id == SubIdOf(u, now)
         media_list == Get(user_data[u], "media", <<>>)
     IN  /\ db' = Put(db, sub_id, Submission(u))
         /\ tasks' = [tasks EXCEPT ![i] =
              IF tasks[i].data = "edit"
                THEN [tasks[i] EXCEPT !.pc = "editmsg"]
                ELSE [h |-> "confirm", u |-> u, data |-> "submit",
                      pc |-> AfterAdmin(0), sub_id |-> sub_id,
                      out |-> Outgoing(media_list,
                                       format_listing(user_data[u])),
                      n |-> 1, part |-> "listing",
                      shown |-> {}, notified |-> {}, failed |-> {}]]
  /\ UNCHANGED <<aside, state, user_data, reply, channel, now>>

ConfirmAnswered(i) ==
  /\ tasks[i].h = "confirm" /\ tasks[i].pc = "answer"
  /\ LET u == tasks[i].u
     IN  IF tasks[i].data = "edit"
           THEN /\ tasks' = [tasks EXCEPT ![i].pc = "editmsg"]
                /\ UNCHANGED db
           ELSE LET sub_id == SubIdOf(u, now)
                    media_list == Get(user_data[u], "media", <<>>)
                IN  /\ db' = Put(db, sub_id, Submission(u))
                    /\ tasks' = [tasks EXCEPT ![i] =
                         [h |-> "confirm", u |-> u, data |-> "submit",
                          pc |-> AfterAdmin(0), sub_id |-> sub_id,
                          out |-> Outgoing(media_list,
                                           format_listing(user_data[u])),
                          n |-> 1, part |-> "listing",
                          shown |-> {}, notified |-> {}, failed |-> {}]]
  /\ UNCHANGED <<aside, state, user_data, reply, channel, now>>


\* (mutant) one try around the whole loop: the first failure ends it
ConfirmNotifyReturn_Abort(i, ok) ==
  /\ tasks[i].h = "confirm" /\ tasks[i].pc = "notify"
  /\ LET t == tasks[i]
         aid == AdminIds[t.n]
         next == [t EXCEPT !.n = t.n + 1, !.part = "listing",
                           !.pc = AfterAdmin(t.n)]
     IN  tasks' = [tasks EXCEPT ![i] =
           IF ~ok
             THEN [t EXCEPT !.failed = @ \cup {aid}, !.pc = "sentmsg"]
           ELSE IF Len(t.out) = 1
             THEN [next EXCEPT !.shown = @ \cup {aid},
                               !.notified = @ \cup {aid}]
           ELSE IF t.part = "listing"
             THEN [t EXCEPT !.part = "keyboard", !.shown = @ \cup {aid}]
           ELSE [next EXCEPT !.notified = @ \cup {aid}]]
  /\ UNCHANGED <<aside, state, user_data, reply, db, channel, now>>

\* One provider call of the loop over the administrators returns or raises.
\* A single item carries the keyboard itself; an album is followed by a
\* separate message with the keyboard.
ConfirmNotifyReturn(i, ok) ==
  /\ tasks[i].h = "confirm" /\ tasks[i].pc = "notify"
  /\ LET t == tasks[i]
         aid == AdminIds[t.n]
         next == [t EXCEPT !.n = t.n + 1, !.part = "listing",
                           !.pc = AfterAdmin(t.n)]
     IN  tasks' = [tasks EXCEPT ![i] =
           IF ~ok
             THEN [next EXCEPT !.failed = @ \cup {aid}]
           ELSE IF Len(t.out) = 1
             THEN [next EXCEPT !.shown = @ \cup {aid},
                               !.notified = @ \cup {aid}]
           ELSE IF t.part = "listing"
             THEN [t EXCEPT !.part = "keyboard", !.shown = @ \cup {aid}]
           ELSE [next EXCEPT !.notified = @ \cup {aid}]]
  /\ UNCHANGED <<aside, state, user_data, reply, db, channel, now>>

ConfirmReturn(i) ==
  /\ tasks[i].h = "confirm" /\ tasks[i].pc \in {"editmsg", "sentmsg"}
  /\ LET u == tasks[i].u
     IN  /\ reply' = [reply EXCEPT
                        ![u] = IF tasks[i].pc = "editmsg"
                                 THEN "restart" ELSE "submitted"]
         /\ user_data' = [user_data EXCEPT ![u] = EmptyDict]
         /\ state' = [state EXCEPT ![u] = END]
  /\ Finish(i)
  /\ UNCHANGED <<aside, db, channel, now>>

\* ----- moderation_handler: the approve:<id> / reject:<id> buttons -----
Approving == {i \in 1..MaxTasks :
                tasks[i].h = "moderation" /\ tasks[i].op = "approve"}

ModPress(cap, u, op, sub_id) ==
  /\ CanDispatch(cap)
  /\ op = "approve" => Len(channel) + Cardinality(Approving) < MaxPosts
  /\ Spawn([h |-> "moderation", u |-> u, op |-> op, sub_id |-> sub_id,
            pc |-> "answer"])
  /\ UNCHANGED <<aside, state, user_data, reply, db, channel, now>>

\* The handler's last call: it edits the moderator's message to resp.  sent
\* is what the handler has sent to users' chats so far, as <<chat, text>>.
Respond(t, resp) ==
  [pc |-> "reply", resp |-> resp,
   sent |-> Get(t, "sent", {}) \cup {<<t.u, resp>>}] @@ t

ApproveLoad(t) ==
  IF t.sub_id \notin DOMAIN db
    THEN Respond(t, "notfound")
    ELSE LET listing == db[t.sub_id].data
         IN  [pc |-> "publish", db |-> db,
              out |-> Outgoing(Get(listing, "media", <<>>),
                               format_listing(listing)),
              sent |-> {}] @@ t

RejectLoad(t) == Respond(t, "rejected") @@ [found |-> t.sub_id \in DOMAIN db]


\* (mutant) reject that leaves the file as it is
RejectSave_Keep(sub_id) == db

\* The file after the reject branch (lines 343-346).
RejectSave(sub_id) == IF sub_id \in DOMAIN db THEN Pop(db, sub_id) ELSE db


\* (mutant) moderation handler without the administrator check
ModAnswered_NoAdminCheck(i) ==
  /\ tasks[i].h = "moderation" /\ tasks[i].pc = "answer"
  /\ LET t == tasks[i]
     IN  IF t.op = "approve"
           THEN /\ tasks' = [tasks EXCEPT ![i] = ApproveLoad(t)]
                /\ UNCHANGED db
         ELSE /\ tasks' = [tasks EXCEPT ![i] = RejectLoad(t)]
              /\ db' = RejectSave(t.sub_id)
  /\ UNCHANGED <<aside, state, user_data, reply, channel, now>>

\* query.answer() has returned: the administrator check, then the approve
\* branch up to its publish call or the whole reject branch.
ModAnswered(i) ==
  /\ tasks[i].h = "moderation" /\ tasks[i].pc = "answer"
  /\ LET t == tasks[i]
     IN  IF ~is_admin(t.u)
           THEN /\ tasks' = [tasks EXCEPT ![i] = Respond(t, "norights")]
                /\ UNCHANGED db
         ELSE IF t.op = "approve"
           THEN /\ tasks' = [tasks EXCEPT ![i] = ApproveLoad(t)]
                /\ UNCHANGED db
         ELSE /\ tasks' = [tasks EXCEPT ![i] = RejectLoad(t)]
              /\ db' = RejectSave(t.sub_id)
  /\ UNCHANGED <<aside, state, user_data, reply, channel, now>>


\* (mutant) the entry is dropped from the file when the publish raises
PublishReturn_DropOnError(i, ok) ==
  /\ tasks[i].h = "moderation" /\ tasks[i].pc = "publish"
  /\ LET t == tasks[i]
     IN  IF ok
           THEN /\ channel' = Append(channel, t.sub_id)
                /\ tasks' = [tasks EXCEPT
                               ![i].pc = "pubedit",
                               ![i].sent = @ \cup {<<t.u, "published">>}]
                /\ UNCHANGED db
           ELSE /\ tasks' = [tasks EXCEPT ![i] = Respond(t, "error")]
                /\ db' = Pop(t.db, t.sub_id)
                /\ UNCHANGED channel
  /\ UNCHANGED <<aside, state, user_data, reply, now>>

\* send_photo / send_video / send_media_group to the channel returns or raises.
PublishReturn(i, ok) ==
  /\ tasks[i].h = "moderation" /\ tasks[i].pc = "publish"
  /\ LET t == tasks[i]
     IN  IF ok
           THEN /\ channel' = Append(channel, t.sub_id)
                /\ tasks' = [tasks EXCEPT
                               ![i].pc = "pubedit",
                               ![i].sent = @ \cup {<<t.u, "published">>}]
           ELSE /\ tasks' = [tasks EXCEPT ![i] = Respond(t, "error")]
                /\ UNCHANGED channel
  /\ UNCHANGED <<aside, state, user_data, reply, db, now>>

\* The edit of line 333 returns or raises; on return the handler's own copy
\* of the file contents, less the entry, is written back.
PubEditReturn(i, ok) ==
  /\ tasks[i].h = "moderation" /\ tasks[i].pc = "pubedit"
  /\ LET t == tasks[i]
     IN  IF ok
           THEN /\ db' = Pop(t.db, t.sub_id)
                /\ Finish(i)
           ELSE /\ tasks' = [tasks EXCEPT ![i] = Respond(t, "error")]
                /\ UNCHANGED db
  /\ UNCHANGED <<aside, state, user_data, reply, channel, now>>

ModReturn(i) ==
  /\ tasks[i].h = "moderation" /\ tasks[i].pc = "reply"
  /\ Finish(i)
  /\ UNCHANGED <<aside, state, user_data, reply, db, channel, now>>

\* ----- the updates and the handler each is routed to (lines 354-378) -----
Update(kind, cmd, text, m, op, sub_id) ==
  [kind |-> kind, cmd |-> cmd, text |-> text, photo |-> m.photo,
   video |-> m.video, op |-> op, sub_id |-> sub_id]

NoMedia == [photo |-> <<>>, video |-> <<>>]

Command(cmd) == Update("command", cmd, <<>>, NoMedia, "", <<>>)

Text(t) == Update("text", "", t, NoMedia, "", <<>>)

Media(m) == Update("media", "", <<>>, m, "", <<>>)

\* A button press: callback data "submit", "edit", "approve:<id>", "reject:<id>".
Callback(op, sub_id) == Update("callback", "", <<>>, NoMedia, op, sub_id)

\* The texts the pattern of line 368 matches (a text is a sequence of words
\* and blanks; the pattern's two Cyrillic spellings behave like these two),
\* and some it does not.
DoneTexts == {<<"done">>, <<"Done">>}

OtherTexts == {<<"DONE">>, <<"done", " ", "done">>, <<"x">>}

\* The handlers of the application outside the conversation (line 378).
AppRoute(upd) ==
  IF upd.kind = "callback" /\ upd.op \in {"approve", "reject"}
    THEN "moderation_handler" ELSE "none"


\* (mutant) the submit / edit handler registered outside the conversation
Route_ConfirmAnywhere(st, upd) ==
  IF upd.kind = "command" /\ upd.cmd = "start" THEN "start"
  ELSE IF upd.kind = "callback" /\ upd.op \in {"submit", "edit"}
    THEN "confirm_handler"
  ELSE IF st = END THEN AppRoute(upd)
  ELSE IF st \in TextStates /\ upd.kind = "text" THEN "set"
  ELSE IF st = MEDIA /\ upd.kind = "media"
            /\ (upd.photo # <<>> \/ upd.video # <<>>) THEN "collect_media"
  ELSE IF st = MEDIA /\ upd.kind = "text" /\ upd.text \in DoneTexts
    THEN "media_done"
  ELSE IF upd.kind = "command" /\ upd.cmd = "cancel" THEN "cancel"
  ELSE AppRoute(upd)

\* The handler that gets an update of a user whose conversation is in state
\* st: the entry point (also inside a conversation: allow_reentry), else the
\* handlers of the state, else the fallback, else the application's other
\* handlers; "none" when nothing matches.
Route(st, upd) ==
  IF upd.kind = "command" /\ upd.cmd = "start" THEN "start"
  ELSE IF st = END THEN AppRoute(upd)
  ELSE IF st \in TextStates /\ upd.kind = "text" THEN "set"
  ELSE IF st = MEDIA /\ upd.kind = "media"
            /\ (upd.photo # <<>> \/ upd.video # <<>>) THEN "collect_media"
  ELSE IF st = MEDIA /\ upd.kind = "text" /\ upd.text \in DoneTexts
    THEN "media_done"
  ELSE IF st = CONFIRM /\ upd.kind = "callback" /\ upd.op \in {"submit", "edit"}
    THEN "confirm_handler"
  ELSE IF upd.kind = "command" /\ upd.cmd = "cancel" THEN "cancel"
  ELSE AppRoute(upd)

\* An update no handler matches is dropped.
Ignored(cap, u, upd) ==
  /\ CanDispatch(cap)
  /\ Route(state[u], upd) = "none"
  /\ UNCHANGED vars

\* What a user can send next: the commands, a text (in a text state an
\* answer to its question), the next upload, a press of a preview button.
Inputs(u) ==
  {Command("start"), Command("cancel"),
   Callback("submit", <<>>), Callback("edit", <<>>)}
    \cup {Text(t) : t \in DoneTexts \cup OtherTexts}
    \cup {Text(t) : t \in (IF state[u] \in TextStates
                             THEN Texts(state[u]) ELSE {})}
    \cup {Media(m) : m \in MediaMsgs(Len(Get(user_data[u], "media", <<>>)) + 1)}

\* ----- the program -----
Step(i) ==
  \/ StartReturn(i)
  \/ CancelReturn(i)
  \/ SetReturn(i)
  \/ MediaDoneReturn(i)
  \/ ConfirmAnswered(i)
  \/ \E ok \in BOOLEAN : ConfirmNotifyReturn(i, ok)
  \/ ConfirmReturn(i)
  \/ ModAnswered(i)
  \/ \E ok \in BOOLEAN : PublishReturn(i, ok)
  \/ \E ok \in BOOLEAN : PubEditReturn(i, ok)
  \/ ModReturn(i)

Dispatch(cap, posters) ==
  \/ \E u \in posters :
       Route(state[u], Command("start")) = "start" /\ StartCmd(cap, u)
  \/ \E u \in posters :
       Route(state[u], Command("cancel")) = "cancel" /\ CancelCmd(cap, u)
  \/ \E u \in posters :
       \E t \in (IF state[u] \in TextStates THEN Texts(state[u]) ELSE {}) :
         Route(state[u], Text(t)) = "set" /\ TextMsg(cap, u, t)
  \/ \E u \in posters :
       \E m \in MediaMsgs(Len(Get(user_data[u], "media", <<>>)) + 1) :
         Route(state[u], Media(m)) = "collect_media" /\ MediaMsg(cap, u, m)
  \/ \E u \in posters, t \in DoneTexts \cup OtherTexts :
       Route(state[u], Text(t)) = "media_done" /\ DoneMsg(cap, u)
  \/ \E u \in posters, data \in {"submit", "edit"} :
       /\ Route(state[u], Callback(data, <<>>)) = "confirm_handler"
       /\ ConfirmPress(cap, u, data)
  \/ \E u \in Users, op \in {"approve", "reject"}, sub_id \in posters \X (0..MaxTime) :
       /\ Route(state[u], Callback(op, sub_id)) = "moderation_handler"
       /\ ModPress(cap, u, op, sub_id)
  \/ \E u \in posters : \E upd \in Inputs(u) : Ignored(cap, u, upd)

\* Updates are handled one at a time (the application of line 352 is built
\* without concurrent updates).
Next ==
  \/ Tick
  \/ Dispatch(1, Posters)
  \/ \E i \in 1..MaxTasks : Step(i)

Spec == Init /\ [][Next]_vars

\* Updates are handled concurrently, up to MaxTasks at a time, so that
\* handlers interleave at their awaits.  The behaviours start at the moment a
\* user who has one submission pending has filled in the form again and is
\* looking at the preview (a state of Spec), and leave out the form's own
\* messages.
Uploaded(n) == [k \in 1..n |-> FileOf(CHOOSE m \in MediaMsgs(k) : TRUE)]

Answers(media_list) ==
  [x \in {"media"} \cup {FieldOf[j] : j \in 1..9} |->
     IF x = "media" THEN media_list
     ELSE LET k == CHOOSE j \in 1..9 : FieldOf[j] = x
          IN  Strip(CHOOSE t \in Texts(k - 1) : TRUE)]

ConcInit ==
  \E u \in Posters :
    /\ state = [v \in Users |-> IF v = u THEN CONFIRM ELSE END]
    /\ user_data = [v \in Users |->
                      IF v = u THEN Answers(Uploaded(2)) ELSE EmptyDict]
    /\ reply = [v \in Users |-> IF v = u THEN "confirm" ELSE "none"]
    /\ db = Put(EmptyDict, SubIdOf(u, 0),
                [user_id |-> u, username |-> u,
                 data |-> Answers(Uploaded(1)), created_at |-> 0])
    /\ channel = <<>>
    /\ now = 1
    /\ tasks = [i \in 1..MaxTasks |-> Idle]
    /\ Started /\ NothingRendered /\ NoAlbums

ConcNext ==
  \/ \E u \in Posters : StartCmd(MaxTasks, u)
  \/ \E u \in Posters : CancelCmd(MaxTasks, u)
  \/ \E u \in Posters, data \in {"submit", "edit"} :
       ConfirmPress(MaxTasks, u, data)
  \/ \E u \in Users, op \in {"approve", "reject"},
        sub_id \in Posters \X (0..1) :
       ModPress(MaxTasks, u, op, sub_id)
  \/ \E i \in 1..MaxTasks :
       \/ StartReturn(i)
       \/ CancelReturn(i)
       \/ ConfirmAnswered(i)
       \/ \E ok \in BOOLEAN : ConfirmNotifyReturn(i, ok)
       \/ ConfirmReturn(i)
       \/ ModAnswered(i)
       \/ \E ok \in BOOLEAN : PublishReturn(i, ok)
       \/ \E ok \in BOOLEAN : PubEditReturn(i, ok)
       \/ ModReturn(i)

ConcSpec == ConcInit /\ [][ConcNext]_vars

\* ----- startup (lines 382-401): the process from its launch on -----
\* MODE as line 384 reads it.
ModeOf(e) == Upper(getenv(e, "MODE", "WEBHOOK"))

\* build_app: the token is read, the application and its handlers are built.
BuildApp ==
  /\ proc = "main"
  /\ proc' = IF env_raises(environ, "BOT_TOKEN") THEN "crashed" ELSE "built"
  /\ UNCHANGED <<bot, environ, rendervars, albumvars>>

\* Lines 387-401: the webhook server, which needs WEBHOOK_URL, or polling.
\* From here on the process serves updates.  (PORT is taken to be unset or a
\* number.)
Run ==
  /\ proc = "built"
  /\ proc' = IF ModeOf(environ) = "WEBHOOK" /\ env_raises(environ, "WEBHOOK_URL")
               THEN "crashed" ELSE "serving"
  /\ UNCHANGED <<bot, environ, rendervars, albumvars>>

BootInit ==
  /\ BotIdle /\ NothingRendered /\ NoAlbums
  /\ environ \in Environs
  /\ proc = "main"

BootNext == BuildApp \/ Run

BootSpec == BootInit /\ [][BootNext]_vars

\* ----- format_listing on its own: any record, rendered once -----
\* The records: a media list and any of the nine fields, each with the answer
\* the form stores for it.
Forms ==
  {[x \in fields \cup {"media"} |-> Answers(Uploaded(1))[x]] :
     fields \in SUBSET {FieldOf[j] : j \in 1..9}}

Render ==
  /\ rendered = NotRendered
  /\ rendered' = format_listing(record)
  /\ UNCHANGED <<bot, bootvars, record, albumvars>>

RenderInit ==
  /\ BotIdle /\ Started /\ NoAlbums
  /\ record \in Forms
  /\ rendered = NotRendered

RenderSpec == RenderInit /\ [][Render]_vars

\* ----- the album buffer (media groups), as the specification describes it -----
Groups == {"g1", "g2"}

\* The fixed delay of a flush (about 1.2 s), in steps of the clock.
FlushDelay == 2

Scheduled(g) == {tm \in timers : tm.gid = g}


\* (mutant) a flush scheduled for every piece
Receive_AlwaysSchedule(g) ==
  /\ arrived < MaxPieces
  /\ arrived' = arrived + 1
  /\ buffers' = Put(buffers, g,
                    Append(Get(buffers, g, <<>>),
                           [gid |-> g, n |-> arrived + 1, at |-> clock]))
  /\ timers' = timers \cup {[gid |-> g, due |-> clock + FlushDelay]}
  /\ UNCHANGED <<bot, bootvars, rendervars, queue, clock>>

\* A media message tagged with group id g arrives: it is appended to the
\* group's list, and a flush is scheduled unless one is.
Receive(g) ==
  /\ arrived < MaxPieces
  /\ arrived' = arrived + 1
  /\ buffers' = Put(buffers, g,
                    Append(Get(buffers, g, <<>>),
                           [gid |-> g, n |-> arrived + 1, at |-> clock]))
  /\ timers' = IF Scheduled(g) = {}
                 THEN timers \cup {[gid |-> g, due |-> clock + FlushDelay]}
                 ELSE timers
  /\ UNCHANGED <<bot, bootvars, rendervars, queue, clock>>

\* A scheduled flush runs: the buffer entry is removed and its list handed
\* over as one album; with no entry left there is nothing to do.
Flush(tm) ==
  /\ tm \in timers /\ tm.due = clock
  /\ timers' = timers \ {tm}
  /\ IF tm.gid \in DOMAIN buffers
       THEN /\ queue' = Append(queue, buffers[tm.gid])
            /\ buffers' = Pop(buffers, tm.gid)
       ELSE UNCHANGED <<queue, buffers>>
  /\ UNCHANGED <<bot, bootvars, rendervars, clock, arrived>>

\* Time passes, up to the next flush that is due.
AlbumTick ==
  /\ clock < MaxClock
  /\ \A tm \in timers : tm.due > clock
  /\ clock' = clock + 1
  /\ UNCHANGED <<bot, bootvars, rendervars, buffers, timers, queue, arrived>>

AlbumInit == BotIdle /\ Started /\ NothingRendered /\ NoAlbums

AlbumNext ==
  \/ \E g \in Groups : Receive(g)
  \/ \E tm \in timers : Flush(tm)
  \/ AlbumTick

AlbumSpec == AlbumInit /\ [][AlbumNext]_vars

\* ----- properties -----
ModTasks == {i \in 1..MaxTasks : tasks[i].h = "moderation"}

PostsOf(sub_id) == {k \in DOMAIN channel : channel[k] = sub_id}

\* The user a submission id names as its origin.
OriginOf(sub_id) == sub_id[1]

\* A moderation handler that is past the publish call, which raised.
PublishFailed(t) ==
  /\ t.h = "moderation" /\ t.pc = "reply" /\ t.resp = "error"
  /\ <<t.u, "published">> \notin t.sent

\* A moderation handler that has run the reject branch as an administrator.
Rejected(t) == t.h = "moderation" /\ t.pc = "reply" /\ t.resp = "rejected"

\* C1: across any sequence of approve presses a submission is published to
\* the channel at most once (the first approve whose publish succeeds removes
\* it, every later approve finds nothing).
C1_PublishedAtMostOnce == \A sub_id \in SubIds : Cardinality(PostsOf(sub_id)) <= 1

\* C2: when the publish call of an approve fails, the failure is reported to
\* the moderator and the submission stays pending with the content it had;
\* approve removes an entry only once its publish has succeeded; and the
\* handler does not publish again after the failure.
C2_Kept ==
  \A i \in ModTasks :
    PublishFailed(tasks[i]) =>
      /\ <<tasks[i].u, "error">> \in tasks[i].sent
      /\ tasks[i].sub_id \in DOMAIN db
      /\ db[tasks[i].sub_id] = tasks[i].db[tasks[i].sub_id]

C2_RemovedAfterPublish ==
  \A sub_id \in DOMAIN db :
    sub_id \notin DOMAIN db' =>
      \E i \in ModTasks :
        /\ tasks[i].sub_id = sub_id
        /\ \/ tasks[i].op = "reject"
           \/ tasks[i].pc = "pubedit" /\ PostsOf(sub_id) # {}

C2_NoRetry ==
  \A i \in ModTasks :
    /\ (tasks[i].pc = "publish" /\ PublishFailed(tasks'[i])) =>
         channel' = channel /\ db' = db
    /\ PublishFailed(tasks[i]) =>
         channel' = channel /\ tasks'[i] \in {tasks[i], Idle}

C2_PublishFailureKeepsEntry ==
  /\ []C2_Kept
  /\ [][C2_RemovedAfterPublish /\ C2_NoRetry]_vars

C2_Witness == \E i \in ModTasks : PublishFailed(tasks[i])

\* C3: a reject by an administrator leaves the id absent from the pending
\* set, and no step of a reject posts to the channel.
C3_Absent ==
  \A i \in ModTasks : Rejected(tasks[i]) => tasks[i].sub_id \notin DOMAIN db

C3_NoPublish ==
  (\E i \in ModTasks : tasks[i].op = "reject") => channel' = channel

C3_RejectRemoves == []C3_Absent /\ [][C3_NoPublish]_vars

C3_Witness ==
  \E i \in ModTasks : Rejected(tasks[i]) /\ tasks[i].found

\* C4: a reject of an id that is not pending answers "not found / already
\* processed", changes nothing in the pending set and publishes nothing.
C4_RejectMissingNotFound ==
  \A i \in ModTasks :
    (tasks[i].pc = "reply" /\ tasks[i].op = "reject" /\ is_admin(tasks[i].u)
       /\ ~tasks[i].found)
      => tasks[i].resp = "notfound"

\* The submission id a handler works on: the one its button names, or the
\* one a submit is about to store under.
ActsOn(t) ==
  IF t.h = "moderation" THEN t.sub_id
  ELSE IF t.h = "confirm" /\ t.pc = "answer" THEN SubIdOf(t.u, now)
  ELSE <<>>

TasksOf(u) == {i \in 1..MaxTasks : tasks[i].h # "idle" /\ tasks[i].u = u}

\* C6: from every conversation state /cancel is accepted, and once handled
\* the conversation is over and the user's record is empty; after a /start
\* the user is in the first state with a record that holds only an empty
\* media list.
C6_CancelFromEveryState ==
  \A u \in Posters :
    /\ (state[u] \in ConvStates /\ Running = {}) => ENABLED CancelCmd(1, u)
    /\ reply[u] = "cancelled" =>
         state[u] = END /\ user_data[u] = EmptyDict
    /\ (reply[u] = "start" /\ TasksOf(u) = {}) =>
         /\ state[u] = CAT
         /\ DOMAIN user_data[u] = {"media"}
         /\ user_data[u]["media"] = <<>>

C6_Witness ==
  \E u \in Posters :
    reply[u] = "cancelled" /\ state[u] = END /\ user_data[u] = EmptyDict

\* C7: the form is linear.  A text in text state k stores the trimmed text
\* under the k-th field and nothing else; the handler's return moves to state
\* k + 1 (media collection after the description); a text state is left only
\* for its successor, or by a start or a cancel; and in conversation state k
\* the record holds exactly the fields of the states before k.
Blank(n) == [j \in 1..n |-> " "]

Trimmed(v, t) ==
  /\ v = <<>> \/ (v[1] # " " /\ v[Len(v)] # " ")
  /\ \E a \in 0..Len(t), b \in 0..Len(t) : t = Blank(a) \o v \o Blank(b)

C7_Order == <<"category", "item", "size", "condition", "price", "city",
              "delivery", "contact", "description">>

FieldsBefore(k) == {C7_Order[j] : j \in 1..(IF k > 9 THEN 9 ELSE k)}

C7_Stores ==
  \A i \in 1..MaxTasks :
    (tasks[i].h = "idle" /\ tasks'[i].h = "set") =>
      LET u == tasks'[i].u
          k == state[u]
      IN  /\ k \in TextStates /\ tasks'[i].k = k /\ state'[u] = k
          /\ DOMAIN user_data'[u] = DOMAIN user_data[u] \cup {C7_Order[k + 1]}
          /\ \E t \in Texts(k) : Trimmed(user_data'[u][C7_Order[k + 1]], t)
          /\ \A f \in DOMAIN user_data[u] \ {C7_Order[k + 1]} :
               user_data'[u][f] = user_data[u][f]

C7_Advances ==
  \A u \in Users :
    (state[u] \in TextStates /\ state'[u] # state[u]) =>
      \E i \in TasksOf(u) :
        /\ tasks'[i] = Idle
        /\ \/ tasks[i].h = "set" /\ state'[u] = state[u] + 1
                /\ user_data'[u] = user_data[u]
           \/ tasks[i].h = "start" /\ state'[u] = CAT
           \/ tasks[i].h = "cancel" /\ state'[u] = END

C7_InOrder ==
  \A u \in Users :
    state[u] \in ConvStates =>
      DOMAIN user_data[u] =
        {"media"} \cup FieldsBefore(
          state[u] + (IF \E i \in TasksOf(u) : tasks[i].h = "set" THEN 1 ELSE 0))

C7_LinearForm == []C7_InOrder /\ [][C7_Stores /\ C7_Advances]_vars

C7_Witness ==
  \E u \in Posters :
    /\ state[u] = MEDIA
    /\ DOMAIN user_data[u] = {"media"} \cup FieldsBefore(9)
    /\ user_data[u]["description"] = <<"e", " ", "e">>

\* C8: after an approve that published a submission, and after a reject that
\* removed one, the handler has sent a notice to the user the submission came
\* from.
Acted(t) ==
  /\ t.h = "moderation"
  /\ \/ t.pc = "pubedit"
     \/ Rejected(t) /\ t.found

C8_OriginNotified ==
  [][\A i \in ModTasks :
       (Acted(tasks[i]) /\ tasks'[i] = Idle) =>
         \E m \in tasks[i].sent : m[1] = OriginOf(tasks[i].sub_id)]_vars

\* C9: a failure while notifying an administrator does not undo the stored
\* submission, does not end the loop over the administrators, and does not
\* keep the handler from ending the conversation with the record cleared.
Submitting(t) == t.h = "confirm" /\ t.data = "submit" /\ t.pc # "answer"

AllAdmins == {AdminIds[n] : n \in DOMAIN AdminIds}

C9_Stored ==
  \A i \in 1..MaxTasks :
    Submitting(tasks[i]) =>
      /\ tasks[i].sub_id \in DOMAIN db
      /\ tasks[i].notified \cap tasks[i].failed = {}
      /\ tasks[i].pc = "sentmsg" =>
           tasks[i].notified \cup tasks[i].failed = AllAdmins

C9_Continues ==
  \A i \in 1..MaxTasks :
    Submitting(tasks[i]) =>
      \/ tasks'[i] = tasks[i]
      \/ db' = db /\ Submitting(tasks'[i])
      \/ /\ tasks[i].pc = "sentmsg" /\ tasks'[i] = Idle /\ db' = db
         /\ state'[tasks[i].u] = END
         /\ user_data'[tasks[i].u] = EmptyDict

C9_NotifyBestEffort == []C9_Stored /\ [][C9_Continues]_vars

C9_Witness ==
  \E i \in 1..MaxTasks :
    /\ Submitting(tasks[i]) /\ tasks[i].pc = "sentmsg"
    /\ AdminIds[1] \in tasks[i].failed
    /\ AdminIds[2] \in tasks[i].notified

\* C10: the edit button stores nothing and notifies nobody, ends the
\* conversation and clears the record; an entry enters the pending set only
\* in the submit branch of the confirm handler, for the user who pressed.
Editing(t) == t.h = "confirm" /\ t.data = "edit"

C10_EditState ==
  /\ \A i \in 1..MaxTasks :
       (Editing(tasks[i]) /\ tasks[i].pc # "answer") =>
         /\ tasks[i].pc = "editmsg"
         /\ Get(tasks[i], "notified", {}) = {}
         /\ Get(tasks[i], "shown", {}) = {}
  /\ \A u \in Users :
       reply[u] = "restart" => state[u] = END /\ user_data[u] = EmptyDict

C10_EditStep ==
  /\ (\E i \in 1..MaxTasks : Editing(tasks[i])) => db' = db
  /\ \A sub_id \in SubIds :
       (sub_id \in DOMAIN db' /\ sub_id \notin DOMAIN db) =>
         \E i \in 1..MaxTasks :
           /\ tasks[i].h = "confirm" /\ tasks[i].data = "submit"
           /\ tasks[i].pc = "answer"
           /\ sub_id = SubIdOf(tasks[i].u, now)
           /\ db'[sub_id].data = user_data[tasks[i].u]

C10_EditDiscards == []C10_EditState /\ [][C10_EditStep]_vars

C10_Witness ==
  \E u \in Posters : reply[u] = "restart" /\ state[u] = END /\ db = EmptyDict

\* The configuration a deployment needs: the token, the channel the approved
\* listings go to, at least one administrator, and in webhook mode the URL.
RequiredSet(e) ==
  /\ "BOT_TOKEN" \in DOMAIN e
  /\ "CHANNEL_ID" \in DOMAIN e
  /\ "ADMIN_IDS" \in DOMAIN e /\ get_admin_ids(e) # <<>>
  /\ ModeOf(e) = "WEBHOOK" => "WEBHOOK_URL" \in DOMAIN e

\* C11: a process started with a required configuration value missing never
\* gets to serve updates.
C11_MissingConfigFatal == proc = "serving" => RequiredSet(environ)

\* C12: the rendered listing has one line per field, in the order item, size,
\* condition, price, city, delivery, contact, description; the line of a
\* field holds the value entered for it, unchanged, and the line of a field
\* without a value holds the placeholder dash.
C12_Lines == <<"item", "size", "condition", "price", "city", "delivery",
               "contact", "description">>

C12_Placeholder == <<"-">>

C12_ListingLines ==
  rendered # NotRendered =>
    /\ Len(rendered.lines) = 8
    /\ \A j \in 1..8 :
         rendered.lines[j] =
           IF C12_Lines[j] \in DOMAIN record
             THEN record[C12_Lines[j]] ELSE C12_Placeholder

C12_Witness ==
  /\ rendered # NotRendered
  /\ DOMAIN record = {"media", "category", "item", "price", "city", "contact"}
  /\ rendered.lines[4] = <<"p", " ", "p">>
  /\ rendered.lines[6] = C12_Placeholder

\* C13: an album (two or more items) sent as the preview, to an administrator
\* or to the channel holds the items in the order they were received (the
\* k-th upload of a conversation has file id k, a photo for odd k and a video
\* for even k), as many as were received, with the listing text as the
\* caption of the first item and no caption on the others.
Sends == {i \in 1..MaxTasks : "out" \in DOMAIN tasks[i]}

\* The record the handler sends: the user's own, or the stored entry's.
SentRecord(t) ==
  IF t.h = "moderation" THEN db[t.sub_id].data ELSE user_data[t.u]

C13_AlbumOrderAndCaption ==
  \A i \in Sends :
    LET t == tasks[i]
    IN  Len(t.out) >= 2 =>
          /\ Len(t.out) = Len(SentRecord(t)["media"])
          /\ \A j \in 1..Len(t.out) :
               /\ t.out[j].media = j
               /\ t.out[j].kind = (IF j % 2 = 1 THEN "photo" ELSE "video")
               /\ t.out[j].caption =
                    (IF j = 1 THEN <<format_listing(SentRecord(t))>> ELSE <<>>)

C13_Witness ==
  \E i \in Sends :
    /\ tasks[i].h = "moderation" /\ tasks[i].pc = "pubedit"
    /\ Len(tasks[i].out) >= 2
    /\ channel # <<>>

\* C14: the pieces of a group that arrive before its flush are handed over
\* as one album, in the order of their arrival; a group has at most one flush
\* scheduled; and a piece that arrives after the flush of its group belongs
\* to a new album of its own, which holds nothing that arrived before that
\* flush.  No piece is lost or handed over twice.
Buffered == UNION {{buffers[g][j] : j \in DOMAIN buffers[g]} : g \in DOMAIN buffers}

Handed == UNION {{queue[a][j] : j \in DOMAIN queue[a]} : a \in DOMAIN queue}

C14_OneTimer ==
  /\ \A g \in Groups : Cardinality({tm \in timers : tm.gid = g}) <= 1
  /\ {tm.gid : tm \in timers} = DOMAIN buffers

C14_OneAlbum(album) ==
  /\ album # <<>>
  /\ \A j \in DOMAIN album :
       /\ album[j].gid = album[1].gid
       /\ album[j].at <= album[1].at + 2
       /\ j > 1 => album[j].n > album[j - 1].n

C14_Independent ==
  \A a \in DOMAIN queue, b \in DOMAIN queue :
    (a < b /\ queue[a][1].gid = queue[b][1].gid) =>
      \A j \in DOMAIN queue[b] : queue[b][j].at >= queue[a][1].at + 2

C14_NoneLost ==
  /\ {p.n : p \in Buffered \cup Handed} = 1..arrived
  /\ Buffered \cap Handed = {}
  /\ Cardinality(Buffered) + Cardinality(Handed) = arrived
  /\ \A a \in DOMAIN queue, b \in DOMAIN queue :
       a # b => \A j \in DOMAIN queue[a], k \in DOMAIN queue[b] :
                  queue[a][j] # queue[b][k]

C14_AlbumDebounce ==
  /\ C14_OneTimer
  /\ \A a \in DOMAIN queue : C14_OneAlbum(queue[a])
  /\ \A g \in DOMAIN buffers : C14_OneAlbum(buffers[g])
  /\ C14_Independent
  /\ C14_NoneLost

C14_Witness ==
  /\ Len(queue) >= 2
  /\ Len(queue[1]) >= 2
  /\ queue[2][1].gid = queue[1][1].gid

RejectDone(sub_id) ==
  \E i \in ModTasks :
    Rejected(tasks[i]) /\ tasks[i].found /\ tasks[i].sub_id = sub_id

C17_Admins == {1, 2}

C17_Refused ==
  \A i \in ModTasks :
    (tasks[i].u \notin C17_Admins /\ tasks[i].pc # "answer") =>
      tasks[i].pc = "reply" /\ tasks[i].resp = "norights"

C17_Step ==
  /\ \A i \in ModTasks :
       (tasks[i].u \notin C17_Admins /\ tasks'[i] # tasks[i]) =>
         db' = db /\ channel' = channel
  /\ channel' # channel =>
       \E i \in ModTasks :
         LET t == tasks[i]
         IN  /\ t.u \in C17_Admins /\ t.op = "approve"
             /\ channel' = Append(channel, t.sub_id)
             /\ t.sub_id \in DOMAIN db
             /\ t.out = Outgoing(db[t.sub_id].data["media"],
                                 format_listing(db[t.sub_id].data))

C17_OnlyAdminsModerate == []C17_Refused /\ [][C17_Step]_vars

C17_Witness ==
  \E i \in ModTasks :
    /\ tasks[i].pc = "reply" /\ tasks[i].resp = "norights"
    /\ tasks[i].op = "approve" /\ tasks[i].sub_id \in DOMAIN db

\* C18: every pending submission holds at least one media item and all nine
\* fields, also when a start or cancel of the same user is handled while the
\* submit is in progress; and a conversation enters the confirm state only
\* when media_done returns from showing the preview of a non-empty media
\* list (with an empty list it stays in media collection).
C18_Fields == {"category", "item", "size", "condition", "price", "city",
               "delivery", "contact", "description"}

C18_Complete ==
  \A sub_id \in DOMAIN db :
    LET data == db[sub_id].data
    IN  /\ C18_Fields \cup {"media"} \subseteq DOMAIN data
        /\ Len(data["media"]) >= 1

C18_ConfirmByDone ==
  \A u \in Users :
    /\ (state[u] # CONFIRM /\ state'[u] = CONFIRM) =>
         \E i \in TasksOf(u) :
           /\ tasks[i].h = "media_done" /\ tasks[i].pc = "preview"
           /\ tasks'[i] = Idle
           /\ Len(user_data[u]["media"]) >= 1
    /\ \A i \in TasksOf(u) :
         (tasks[i].h = "media_done" /\ tasks[i].pc = "nomedia"
            /\ tasks'[i] = Idle) => state'[u] = MEDIA

C19_SubmitAddsEntry ==
  [][\A i \in 1..MaxTasks :
       (tasks[i].h = "confirm" /\ tasks[i].data = "submit"
          /\ tasks[i].pc = "answer" /\ tasks'[i] # tasks[i]) =>
         /\ SubIdOf(tasks[i].u, now) \notin DOMAIN db
         /\ Cardinality(DOMAIN db') = Cardinality(DOMAIN db) + 1
         /\ \A sub_id \in DOMAIN db : db'[sub_id] = db[sub_id]]_vars

\* C20: an input the conversation state does not accept is dropped: a photo
\* or video in a text state, a text that is not the done word in media
\* collection, a text or a photo or video in the confirm state, a press of
\* submit or edit outside the confirm state.  And the handlers that store
\* something run only in their own states: a text is stored only in a text
\* state, an upload only in media collection, the preview is made only from
\* media collection, and the confirm handler starts only in the confirm
\* state.
C20_Uploads ==
  {Media([photo |-> <<0, 7>>, video |-> <<>>]),
   Media([photo |-> <<>>, video |-> <<8>>])}

C20_Texts == {Text(<<"x">>), Text(<<"DONE">>), Text(<<"done", " ", "done">>)}

C20_Done == {Text(<<"done">>), Text(<<"Done">>)}

C20_Presses == {Callback("submit", <<>>), Callback("edit", <<>>)}

C20_Unaccepted(st) ==
  (IF st \in 0..8 THEN C20_Uploads ELSE {})
    \cup (IF st = 9 THEN C20_Texts ELSE {})
    \cup (IF st = 10 THEN C20_Texts \cup C20_Done \cup C20_Uploads ELSE {})
    \cup (IF st # 10 THEN C20_Presses ELSE {})

C20_Dropped ==
  \A u \in Users : \A upd \in C20_Unaccepted(state[u]) :
    /\ Route(state[u], upd) = "none"
    /\ ~ENABLED (Ignored(1, u, upd) /\ vars' # vars)

C20_OwnState ==
  /\ \A i \in 1..MaxTasks :
       (tasks[i].h = "idle" /\ tasks'[i].h \in {"set", "media_done", "confirm"}) =>
         LET st == state[tasks'[i].u]
         IN  /\ tasks'[i].h = "set" => st \in 0..8
             /\ tasks'[i].h = "media_done" => st = 9
             /\ tasks'[i].h = "confirm" => st = 10
  /\ \A u \in Users :
       user_data'[u] # user_data[u] =>
         \/ \E i \in 1..MaxTasks :
              /\ tasks[i].h = "idle" /\ tasks'[i].h = "set" /\ tasks'[i].u = u
         \/ state[u] = 9 /\ tasks' = tasks
              /\ user_data'[u] =
                   [user_data[u] EXCEPT
                      !["media"] = Append(@, user_data'[u]["media"][Len(@) + 1])]
         \/ \E i \in TasksOf(u) :
              tasks[i].h \in {"start", "cancel", "confirm"} /\ tasks'[i] = Idle
  /\ \A u \in Users :
       state'[u] # state[u] => \E i \in TasksOf(u) : tasks'[i] = Idle

C20_UnacceptedIgnored == []C20_Dropped /\ [][C20_OwnState]_vars

\* A user who has a submission pending and has started the form again can
\* still press the submit button of the old preview.
C20_Witness ==
  \E u \in Posters :
    /\ state[u] \in 0..8 /\ db # EmptyDict /\ Running = {}
    /\ ENABLED Ignored(1, u, Callback("submit", <<>>))

====
